---- MODULE Spec2Model ----
(***************************************************************************)
(* Complexity Compass (src/Complexity_Compass.py): the symbolic backend    *)
(* (parse_function, dominant_term, check_asymptotic_definitions) and the   *)
(* "Analyze Function" handler with its session state.                      *)
(*                                                                         *)
(* Expressions are sums of monomial terms c * Fn[r], r a growth class.     *)
(* The computer-algebra calls the program makes (sympify, simplify,        *)
(* expand, limit, subs/evalf, str) are modelled by what they return on     *)
(* this expression domain.                                                 *)
(***************************************************************************)
EXTENDS Integers, Sequences, FiniteSets, TLC

\* ------------------------------------------------------------------ bounds
MaxCoef == 1
MaxTerms == 3

\* ------------------------------------------------------------- expressions
\* The growth classes of the domain, slowest first; a term's rank r names Fn[r+1].
Fn == <<"1", "log(n)", "n", "n**2", "exp(n)">>
Ranks == 0..(Len(Fn) - 1)
ExpRank == Len(Fn) - 1
Coefs == {c \in -MaxCoef..MaxCoef : c # 0}

\* The module-level symbol the limits and substitutions are taken over.
n == "n_real_positive"
\* The symbol sympify creates for the name n: the locals passed to it hold only
\* the four functions, so the name is a new Symbol('n') with no assumptions,
\* which is not equal to the module-level symbol.
ParsedSymbol == "n_plain"
Symbols == {n, ParsedSymbol}

\* Kinds of term: "reg" an ordinary monomial; "osc" a monomial times a bounded
\* oscillating factor (sin(n)); "hard" a term whose symbolic limit raises but
\* that evaluates numerically; "opaque" a term for which both strategies raise.
\* Forms: "split" is E*exp(n) (what expand makes of exp(n + 1)), "joined" is
\* exp(n + 1) (what simplify makes of E*exp(n)); "canon" is fixed by both.
Term(c, r, k, form) == [c |-> c, r |-> r, k |-> k, form |-> form]

\* An expression: tag "expr" is the sum of the terms ts in canonical order (no
\* term: the number 0; one term: not an Add); "nan" is S.NaN; "obj" is a parsed
\* value that is no scalar expression (a Python list).
Expr(ts, v) == [tag |-> "expr", ts |-> ts, v |-> v]
NaN == [tag |-> "nan", ts |-> <<>>, v |-> n]
Obj == [tag |-> "obj", ts |-> <<>>, v |-> n]
None == [tag |-> "none", ts |-> <<>>, v |-> n]
Zero(v) == Expr(<<>>, v)

Range(s) == {s[j] : j \in DOMAIN s}
MentionsN(e) == e.tag = "expr" /\ \E t \in Range(e.ts) : t.r > 0 \/ t.k # "reg"
isAdd(e) == e.tag = "expr" /\ Len(e.ts) >= 2

\* ----------------------------------------------------------------- numbers
Abs(x) == IF x < 0 THEN -x ELSE x
Sign(x) == IF x < 0 THEN -1 ELSE IF x > 0 THEN 1 ELSE 0

RECURSIVE GCD(_, _)
GCD(a, b) == IF b = 0 THEN a ELSE GCD(b, a % b)

Digit == <<"0", "1", "2", "3", "4", "5", "6", "7", "8", "9">>
RECURSIVE NatStr(_)
NatStr(x) == IF x < 10 THEN Digit[x + 1] ELSE NatStr(x \div 10) \o Digit[(x % 10) + 1]
IntStr(x) == IF x < 0 THEN "-" \o NatStr(-x) ELSE NatStr(x)

\* ---------------------------------------------------------------- printing
\* str() of a term and of an expression.
BaseStr(t) ==
    LET f == IF t.form = "joined" THEN "exp(n + 1)"
             ELSE IF t.form = "split" THEN "E*exp(n)"
             ELSE Fn[t.r + 1]
        w == IF t.k = "osc" THEN (IF t.r = 0 THEN "sin(n)" ELSE f \o "*sin(n)")
             ELSE IF t.k = "hard" THEN "floor(" \o f \o ")"
             ELSE IF t.k = "opaque" THEN "h(" \o f \o ")"
             ELSE f
    IN  w

TermStr(t) ==
    IF t.r = 0 /\ t.k = "reg" THEN IntStr(t.c)
    ELSE IF t.c = 1 THEN BaseStr(t)
    ELSE IF t.c = -1 THEN "-" \o BaseStr(t)
    ELSE IntStr(t.c) \o "*" \o BaseStr(t)

RECURSIVE SumStr(_, _)
SumStr(ts, j) ==
    IF j > Len(ts) THEN ""
    ELSE (IF j = 1 THEN TermStr(ts[j])
          ELSE IF ts[j].c < 0 THEN " - " \o TermStr([ts[j] EXCEPT !.c = -ts[j].c])
          ELSE " + " \o TermStr(ts[j]))
         \o SumStr(ts, j + 1)

ExprStr(e) ==
    IF e.tag = "nan" THEN "nan"
    ELSE IF e.tag = "obj" THEN "[1, 2]"
    ELSE IF e.tag = "none" THEN "None"
    ELSE IF e.ts = <<>> THEN "0"
    ELSE SumStr(e.ts, 1)

\* ------------------------------------------------- the algebra system calls
Ok(e) == [st |-> "ok", val |-> e]
Raise == [st |-> "raise", val |-> None]

\* sp.simplify: combines E*exp(n) into exp(n + 1) (powsimp); a list passes
\* through its first steps unchanged.
simplify(e) ==
    Ok([e EXCEPT !.ts = [j \in DOMAIN e.ts |->
            IF e.ts[j].form = "split" THEN [e.ts[j] EXCEPT !.form = "joined"] ELSE e.ts[j]]])

\* sp.expand: sympify(e).expand(...); splits exp(n + 1) into E*exp(n); a list
\* has no expand method (AttributeError).
expand(e) ==
    IF e.tag = "obj" THEN Raise
    ELSE Ok([e EXCEPT !.ts = [j \in DOMAIN e.ts |->
            IF e.ts[j].form = "joined" THEN [e.ts[j] EXCEPT !.form = "split"] ELSE e.ts[j]]])

\* A limit value, or the fact that the computation raised.
LVal(kind, sgn, num, den, e, txt) ==
    [st |-> "ok", kind |-> kind, sgn |-> sgn, num |-> num, den |-> den, e |-> e, txt |-> txt]
LRaise == [st |-> "raise", kind |-> "none", sgn |-> 0, num |-> 0, den |-> 1, e |-> 0, txt |-> ""]
NoLimit == [st |-> "none", kind |-> "none", sgn |-> 0, num |-> 0, den |-> 1, e |-> 0, txt |-> ""]
LZero == LVal("zero", 0, 0, 1, 0, "")
LNaN == LVal("nan", 0, 0, 1, 0, "")
\* oo (sgn 1), -oo (sgn -1), zoo (sgn 0)
LInf(s) == LVal("inf", s, 0, 1, 0, "")
\* the finite nonzero number (a/b) * E**e, in lowest terms
LFin(a, b, e) ==
    LET g == GCD(Abs(a), Abs(b))
    IN  LVal("fin", Sign(a * b), (Sign(b) * a) \div g, Abs(b) \div g, e, "")
\* AccumBounds: the limit does not exist, the ratio oscillates
LAccum(txt) == LVal("accum", 0, 0, 1, 0, txt)
\* the ratio itself, returned because it does not contain the limit variable
LSym(txt) == LVal("sym", 0, 0, 1, 0, txt)

\* L == 0
EqualsZero(L) == L.kind = "zero"
\* L.is_infinite is True (it is None for nan, AccumBounds and a symbolic ratio)
is_infinite(L) == L.kind = "inf"
IsFiniteNonzero(L) == L.kind = "fin"

\* str(L)
FinStr(a, b, e) ==
    LET sym == IF e = 1 THEN "E" ELSE "exp(-1)"
    IN  IF e = 0 THEN (IF b = 1 THEN IntStr(a) ELSE IntStr(a) \o "/" \o IntStr(b))
        ELSE (IF a = 1 THEN sym
              ELSE IF a = -1 THEN "-" \o sym
              ELSE IntStr(a) \o "*" \o sym)
             \o (IF b = 1 THEN "" ELSE "/" \o IntStr(b))
Str(L) ==
    IF L.kind = "zero" THEN "0"
    ELSE IF L.kind = "nan" THEN "nan"
    ELSE IF L.kind = "inf" THEN (IF L.sgn = 1 THEN "oo" ELSE IF L.sgn = -1 THEN "-oo" ELSE "zoo")
    ELSE IF L.kind = "fin" THEN FinStr(L.num, L.den, L.e)
    ELSE L.txt

\* f / g followed by sp.simplify: the quotient, or TypeError for an operand
\* that is no scalar expression.
Quotient(f, g) ==
    [st |-> IF f.tag = "obj" \/ g.tag = "obj" THEN "raise" ELSE "ok", num |-> f, den |-> g]
QuotientStr(q) ==
    (IF isAdd(q.num) THEN "(" \o ExprStr(q.num) \o ")" ELSE ExprStr(q.num)) \o "/"
    \o (IF isAdd(q.den) \/ (q.den.tag = "expr" /\ q.den.ts # <<>> /\ q.den.ts[1].c # 1)
        THEN "(" \o ExprStr(q.den) \o ")" ELSE ExprStr(q.den))

EFactor(t) == IF t.form = "canon" THEN 0 ELSE 1
SameFunction(t, d) == t.r = d.r /\ t.k = d.k
Lead(ts) == CHOOSE t \in Range(ts) : \A u \in Range(ts) : u.r <= t.r
Unresolvable(e) == \E t \in Range(e.ts) : t.k \in {"hard", "opaque"}

\* sp.limit(q, n, sp.oo) for a quotient q whose operands are over one symbol.
\* The limit is taken over the module-level symbol n: a quotient that does not
\* contain that symbol is returned as it is.
limit(q) ==
    LET f == q.num
        g == q.den
    IN  IF f.tag = "nan" \/ g.tag = "nan" THEN LNaN
        ELSE IF g.ts = <<>> THEN (IF f.ts = <<>> THEN LNaN ELSE LInf(0))
        ELSE IF f.ts = <<>> THEN LZero
        ELSE IF f = g THEN LFin(1, 1, 0)
        ELSE IF Len(f.ts) = 1 /\ Len(g.ts) = 1 /\ SameFunction(f.ts[1], g.ts[1])
            THEN LFin(f.ts[1].c, g.ts[1].c, EFactor(f.ts[1]) - EFactor(g.ts[1]))
        ELSE IF (MentionsN(f) /\ f.v # n) \/ (MentionsN(g) /\ g.v # n) THEN LSym(QuotientStr(q))
        ELSE IF Unresolvable(f) \/ Unresolvable(g) THEN LRaise
        ELSE LET lf == Lead(f.ts)
                 lg == Lead(g.ts)
             IN  IF lf.r < lg.r THEN LZero
                 ELSE IF lf.r = lg.r
                     THEN (IF lf.k = "osc"
                           THEN LAccum("AccumBounds(" \o FinStr(-Abs(lf.c), Abs(lg.c), 0) \o ", "
                                       \o FinStr(Abs(lf.c), Abs(lg.c), 0) \o ")")
                           ELSE LFin(lf.c, lg.c, EFactor(lf) - EFactor(lg)))
                 ELSE (IF lf.k = "osc" THEN LAccum("AccumBounds(-oo, oo)")
                       ELSE LInf(Sign(lf.c * lg.c)))

\* float(t.subs(n, n_val).evalf()): subs replaces the module-level symbol only,
\* and float() of an expression that still holds a symbol raises TypeError.
FloatOk(t, v) == t.k # "opaque" /\ (v = n \/ (t.r = 0 /\ t.k = "reg"))
\* The value at n = 10**6, kept as (sign, growth class, magnitude within the
\* class): at that point the classes are 1, 13.8, 1e6, 1e12 and inf, so a
\* coefficient below 13 never carries a value into the next class. exp(10**6)
\* overflows to inf, whatever its coefficient.
Val(t) == [sgn |-> Sign(t.c), r |-> t.r, m |-> IF t.r = ExpRank THEN 0 ELSE Abs(t.c)]
Greater(a, b) ==
    IF a.sgn # b.sgn THEN a.sgn > b.sgn
    ELSE IF a.sgn > 0 THEN a.r > b.r \/ (a.r = b.r /\ a.m > b.m)
    ELSE a.r < b.r \/ (a.r = b.r /\ a.m < b.m)

\* ------------------------------------------------------------ the program
\* sp.sympify(func_str, locals=allowed_funcs) on the input strings of the model:
\* the name n becomes ParsedSymbol; the terms are in the canonical order of
\* as_ordered_terms (the symbol's powers before the other functions of it).
InputStrings ==
    {"n", "5", "0", "nan", "n**2 + n", "log(n) + n", "exp(n) + n", "exp(n + 1)",
     "log(n) - n**2", "[1, 2]", "n**2 +", "(n + 1"}
sympify(s) ==
    CASE s = "n" -> Ok(Expr(<<Term(1, 2, "reg", "canon")>>, ParsedSymbol))
      [] s = "5" -> Ok(Expr(<<Term(5, 0, "reg", "canon")>>, ParsedSymbol))
      [] s = "0" -> Ok(Zero(ParsedSymbol))
      [] s = "nan" -> Ok(NaN)
      [] s = "n**2 + n" ->
            Ok(Expr(<<Term(1, 3, "reg", "canon"), Term(1, 2, "reg", "canon")>>, ParsedSymbol))
      [] s = "log(n) + n" ->
            Ok(Expr(<<Term(1, 2, "reg", "canon"), Term(1, 1, "reg", "canon")>>, ParsedSymbol))
      [] s = "exp(n) + n" ->
            Ok(Expr(<<Term(1, 2, "reg", "canon"), Term(1, ExpRank, "reg", "canon")>>, ParsedSymbol))
      [] s = "exp(n + 1)" -> Ok(Expr(<<Term(1, ExpRank, "reg", "joined")>>, ParsedSymbol))
      [] s = "log(n) - n**2" ->
            Ok(Expr(<<Term(-1, 3, "reg", "canon"), Term(1, 1, "reg", "canon")>>, ParsedSymbol))
      [] s = "[1, 2]" -> Ok(Obj)
      [] OTHER -> Raise

\* lines 19-24
parse_function(func) ==
    LET r == sympify(func)
    IN  IF r.st = "raise" THEN None ELSE r.val

\* CompareStep with a candidate that is no term of f: the new candidate with its
\* sign lost.
CompareStepSynthesizing(t, d, v) ==
    LET lm == limit(Quotient(Expr(<<t>>, v), Expr(<<d>>, v)))
    IN  IF lm.st = "ok"
        THEN [dom |-> IF is_infinite(lm) THEN [t EXCEPT !.c = -t.c] ELSE d, resolved |-> TRUE]
        ELSE IF FloatOk(t, v) /\ FloatOk(d, v)
            THEN [dom |-> IF Greater(Val(t), Val(d)) THEN t ELSE d, resolved |-> FALSE]
        ELSE [dom |-> d, resolved |-> FALSE]

\* lines 36-48: one iteration of the loop over terms[1:]. The new candidate, and
\* whether the symbolic limit resolved without error.
CompareStep(t, d, v) ==
    LET q == Quotient(Expr(<<t>>, v), Expr(<<d>>, v))
        lm == limit(q)
    IN  IF lm.st = "ok"
        THEN [dom |-> IF is_infinite(lm) THEN t ELSE d, resolved |-> TRUE]
        ELSE IF FloatOk(t, v) /\ FloatOk(d, v)
            THEN [dom |-> IF Greater(Val(t), Val(d)) THEN t ELSE d, resolved |-> FALSE]
        ELSE [dom |-> d, resolved |-> FALSE]

\* lines 35-48: the loop from position j on, with candidate d.
RECURSIVE ScanFrom(_, _, _, _)
ScanFrom(ts, j, d, v) ==
    IF j > Len(ts) THEN d ELSE ScanFrom(ts, j + 1, CompareStep(ts[j], d, v).dom, v)

\* line 28: f = sp.expand(sp.simplify(f))
Normalize(f) ==
    LET s1 == simplify(f)
    IN  IF s1.st = "raise" THEN Raise ELSE expand(s1.val)

\* lines 53-55: the limit of the simplified ratio, or the error raised on the way.
LimitOfRatio(f, g) ==
    LET q == Quotient(f, g)
    IN  IF q.st = "raise" THEN LRaise ELSE limit(q)

Result(o, om, th, cO, cOm, n0) ==
    [O |-> o, Omega |-> om, Theta |-> th, c_O |-> cO, c_Omega |-> cOm, n0 |-> n0]
NoResult == Result(FALSE, FALSE, FALSE, "", "", "")

\* check_asymptotic_definitions with the flags of its first two branches exchanged.
ClassifierBranchesSwapped(f, g) ==
    LET lm == LimitOfRatio(f, g)
    IN  IF lm.st = "raise"
        THEN Result(FALSE, FALSE, FALSE, "undefined", "undefined", "undefined")
        ELSE IF EqualsZero(lm) THEN Result(FALSE, TRUE, FALSE, Str(lm), Str(lm), "symbolic")
        ELSE IF is_infinite(lm) THEN Result(TRUE, FALSE, FALSE, Str(lm), Str(lm), "symbolic")
        ELSE Result(TRUE, TRUE, TRUE, Str(lm), Str(lm), "symbolic")

\* check_asymptotic_definitions with Theta left false in its last branch.
ClassifierThetaDropped(f, g) ==
    LET lm == LimitOfRatio(f, g)
    IN  IF lm.st = "raise"
        THEN Result(FALSE, FALSE, FALSE, "undefined", "undefined", "undefined")
        ELSE IF EqualsZero(lm) THEN Result(TRUE, FALSE, FALSE, Str(lm), Str(lm), "symbolic")
        ELSE IF is_infinite(lm) THEN Result(FALSE, TRUE, FALSE, Str(lm), Str(lm), "symbolic")
        ELSE Result(TRUE, TRUE, FALSE, Str(lm), Str(lm), "symbolic")

\* lines 52-67
check_asymptotic_definitions(f, g) ==
    LET lm == LimitOfRatio(f, g)
    IN  IF lm.st = "raise"
        THEN Result(FALSE, FALSE, FALSE, "undefined", "undefined", "undefined")
        ELSE IF EqualsZero(lm) THEN Result(TRUE, FALSE, FALSE, Str(lm), Str(lm), "symbolic")
        ELSE IF is_infinite(lm) THEN Result(FALSE, TRUE, FALSE, Str(lm), Str(lm), "symbolic")
        ELSE Result(TRUE, TRUE, TRUE, Str(lm), Str(lm), "symbolic")

\* ------------------------------------------------------------------ state
VARIABLES
    func_str,   \* the text of the input box at the last press
    ui,         \* what the press showed: "none", "warning", "success", "exception"
    session,    \* st.session_state: f, g, results, present or not
    pc,         \* "idle", "scan" (inside the loop of dominant_term), "done"
    caller,     \* who called: "none", "analyze" (the handler), "direct"
    arg,        \* dominant_term: its argument
    nf,         \* dominant_term: f after line 28
    i,          \* dominant_term: the position of the next term of the loop
    dom,        \* dominant_term: the candidate
    resolved,   \* dominant_term: every symbolic limit so far resolved without error
    ret,        \* dominant_term: the value returned
    raised,     \* an exception left the call
    cf, cg,     \* check_asymptotic_definitions: its arguments
    lim,        \* check_asymptotic_definitions: L
    results     \* check_asymptotic_definitions: the value returned

vars == <<func_str, ui, session, pc, caller, arg, nf, i, dom, resolved, ret, raised,
          cf, cg, lim, results>>

NoTerm == Term(0, 0, "none", "canon")
NoSession == [has |-> FALSE, f |-> None, g |-> None, results |-> NoResult]
\* line 32: terms = list(f.as_ordered_terms())
terms == nf.ts

Init ==
    /\ func_str = ""
    /\ ui = "none"
    /\ session = NoSession
    /\ pc = "idle"
    /\ caller = "none"
    /\ arg = None
    /\ nf = None
    /\ i = 0
    /\ dom = NoTerm
    /\ resolved = TRUE
    /\ ret = None
    /\ raised = FALSE
    /\ cf = None
    /\ cg = None
    /\ lim = NoLimit
    /\ results = NoResult

NoClassification ==
    /\ cf' = None
    /\ cg' = None
    /\ lim' = NoLimit
    /\ results' = NoResult

\* lines 121-125 for the handler; a direct caller only receives the value.
Returned(who, f, g) ==
    IF who = "analyze"
    THEN /\ cf' = f
         /\ cg' = g
         /\ lim' = LimitOfRatio(f, g)
         /\ results' = check_asymptotic_definitions(f, g)
         /\ session' = [has |-> TRUE, f |-> f, g |-> g,
                        results |-> check_asymptotic_definitions(f, g)]
         /\ ui' = "success"
    ELSE /\ NoClassification
         /\ UNCHANGED <<session, ui>>

\* lines 27-33: the call of dominant_term(f) up to the loop; line 30 when the
\* normalized f is not a sum. An exception of line 28 leaves the function.
dominant_term_enter(who, f) ==
    LET nz == Normalize(f)
    IN  /\ caller' = who
        /\ arg' = f
        /\ resolved' = TRUE
        /\ IF nz.st = "raise"
           THEN /\ pc' = "done"
                /\ raised' = TRUE
                /\ nf' = None
                /\ i' = 0
                /\ dom' = NoTerm
                /\ ret' = None
                /\ NoClassification
                /\ ui' = IF who = "analyze" THEN "exception" ELSE ui
                /\ UNCHANGED session
           ELSE IF ~isAdd(nz.val)
           THEN /\ pc' = "done"
                /\ raised' = FALSE
                /\ nf' = nz.val
                /\ i' = 0
                /\ dom' = NoTerm
                /\ ret' = simplify(nz.val).val
                /\ Returned(who, f, simplify(nz.val).val)
           ELSE /\ pc' = "scan"
                /\ raised' = FALSE
                /\ nf' = nz.val
                /\ i' = 2
                /\ dom' = nz.val.ts[1]
                /\ ret' = None
                /\ NoClassification
                /\ UNCHANGED <<session, ui>>

\* lines 35-48: one iteration
ScanStep ==
    /\ pc = "scan"
    /\ i <= Len(terms)
    /\ dom' = CompareStep(terms[i], dom, nf.v).dom
    /\ resolved' = (resolved /\ CompareStep(terms[i], dom, nf.v).resolved)
    /\ i' = i + 1
    /\ UNCHANGED <<func_str, ui, session, pc, caller, arg, nf, ret, raised, cf, cg, lim, results>>

\* line 50: return sp.simplify(dom), and what the caller does with it
ScanReturn ==
    /\ pc = "scan"
    /\ i > Len(terms)
    /\ pc' = "done"
    /\ ret' = simplify(Expr(<<dom>>, nf.v)).val
    /\ Returned(caller, arg, simplify(Expr(<<dom>>, nf.v)).val)
    /\ UNCHANGED <<func_str, caller, arg, nf, i, dom, resolved, raised>>

\* The handler clearing the session when the input does not parse.
AnalyzeFunctionClearing(func) ==
    /\ pc \in {"idle", "done"}
    /\ func_str' = func
    /\ IF parse_function(func) = None
       THEN /\ ui' = "warning"
            /\ session' = NoSession
            /\ UNCHANGED <<pc, caller, arg, nf, i, dom, resolved, ret, raised,
                           cf, cg, lim, results>>
       ELSE dominant_term_enter("analyze", parse_function(func))

\* lines 115-125: a press of "Analyze Function" with func in the input box
AnalyzeFunction(func) ==
    /\ pc \in {"idle", "done"}
    /\ func_str' = func
    /\ IF parse_function(func) = None
       THEN /\ ui' = "warning"
            /\ UNCHANGED <<session, pc, caller, arg, nf, i, dom, resolved, ret, raised,
                           cf, cg, lim, results>>
       ELSE dominant_term_enter("analyze", parse_function(func))

\* ------------------------------------------------ direct calls of the functions
\* The terms the direct calls draw from.
RegTerms == {Term(c, r, "reg", "canon") : c \in Coefs, r \in Ranks}
           \cup {Term(1, ExpRank, "reg", "joined")}
HardTerms == {Term(1, 1, "hard", "canon"), Term(1, 3, "hard", "canon"),
              Term(1, 2, "opaque", "canon")}
OscTerms == {Term(1, 0, "osc", "canon"), Term(1, 2, "osc", "canon")}

DistinctRanks(ts) == \A a, b \in DOMAIN ts : a # b => ts[a].r # ts[b].r
\* The sequences of 1..maxlen terms of T with pairwise distinct growth classes.
Sums(T, maxlen) ==
    {ts \in UNION {[1..k -> T] : k \in 1..maxlen} : DistinctRanks(ts)}

\* Arguments of dominant_term: sums over either symbol, 0, nan, a list.
DominantTerms(v) == IF v = n THEN RegTerms \cup HardTerms ELSE RegTerms
DominantSpecials == {Zero(n), NaN, Obj}

\* Arguments of check_asymptotic_definitions: f a term or a sum of two, g a
\* single non-oscillating term over the same symbol, or f itself, or 0 under a
\* constant, or nan, or a list.
ClassifierF ==
    {Expr(ts, n) : ts \in Sums(RegTerms \cup HardTerms \cup OscTerms, 2)}
    \cup {Expr(ts, ParsedSymbol) : ts \in Sums(RegTerms, 2)}
    \cup {Zero(n), NaN, Obj}
ClassifierG(f) ==
    {f, NaN, Obj}
    \cup (IF f.tag = "expr" THEN {Expr(<<t>>, f.v) : t \in RegTerms \cup {Term(1, 1, "hard", "canon")}}
          ELSE {Expr(<<Term(1, 2, "reg", "canon")>>, n)})
    \cup (IF ~MentionsN(f) THEN {Zero(f.v)} ELSE {})

CallDominant(f) ==
    /\ pc = "idle"
    /\ dominant_term_enter("direct", f)
    /\ UNCHANGED func_str

CallClassifier(f, g) ==
    /\ pc = "idle"
    /\ pc' = "done"
    /\ caller' = "direct"
    /\ cf' = f
    /\ cg' = g
    /\ lim' = LimitOfRatio(f, g)
    /\ results' = check_asymptotic_definitions(f, g)
    /\ raised' = FALSE
    /\ UNCHANGED <<func_str, ui, session, arg, nf, i, dom, resolved, ret>>

\* The direct caller is done with the value: the frames are gone.
Discard ==
    /\ pc = "done"
    /\ caller = "direct"
    /\ pc' = "idle"
    /\ caller' = "none"
    /\ arg' = None
    /\ nf' = None
    /\ i' = 0
    /\ dom' = NoTerm
    /\ resolved' = TRUE
    /\ ret' = None
    /\ raised' = FALSE
    /\ NoClassification
    /\ UNCHANGED <<func_str, ui, session>>

\* ------------------------------------------------------------ specifications
\* The application: presses of "Analyze Function".
Press == pc \in {"idle", "done"} /\ \E func \in InputStrings : AnalyzeFunction(func)
Next == Press \/ ScanStep \/ ScanReturn
Spec == Init /\ [][Next]_vars

\* The two functions called directly on the expression domain.
Dominant ==
    /\ pc = "idle"
    /\ \/ \E v \in Symbols : \E k \in 1..MaxTerms : \E ts \in [1..k -> DominantTerms(v)] :
            DistinctRanks(ts) /\ CallDominant(Expr(ts, v))
       \/ \E f \in DominantSpecials : CallDominant(f)
Classifier == pc = "idle" /\ \E f \in ClassifierF : \E g \in ClassifierG(f) : CallClassifier(f, g)
NextFn == Dominant \/ Classifier \/ ScanStep \/ ScanReturn \/ Discard
SpecFn == Init /\ [][NextFn]_vars
\* ------------------------------------------------------------------ claims
Undefined == Result(FALSE, FALSE, FALSE, "undefined", "undefined", "undefined")
AllTrue(r) == r.O /\ r.Omega /\ r.Theta
Classified == pc = "done" /\ lim.st # "none"
MaxRank(ts) == Lead(ts).r
\* The orderings of a sequence of terms.
Orderings(ts) ==
    {p \in [DOMAIN ts -> Range(ts)] : \A a, b \in DOMAIN ts : a # b => p[a] # p[b]}

\* C1: when the limit L of f/g is computed without error, L == 0 gives O true,
\* Omega false, Theta false, and an infinite L gives O false, Omega true, Theta
\* false; in both cases c_O and c_Omega are the string form of L ("0"; "oo",
\* "-oo" or "zoo") and n0 is "symbolic".
C1_ZeroAndInfiniteBranches ==
    (Classified /\ lim.st = "ok") =>
        /\ lim.kind = "zero" => results = Result(TRUE, FALSE, FALSE, "0", "0", "symbolic")
        /\ lim.kind = "inf" =>
            /\ results.O = FALSE /\ results.Omega = TRUE /\ results.Theta = FALSE
            /\ results.c_O = (IF lim.sgn = 1 THEN "oo" ELSE IF lim.sgn = -1 THEN "-oo" ELSE "zoo")
            /\ results.c_Omega = results.c_O
            /\ results.n0 = "symbolic"
\* n over n**2 has been classified, and so the limit was 0.
C1_Witness ==
    /\ Classified
    /\ lim.kind = "zero"
    /\ MentionsN(cf)
    /\ results.O

\* C2 (as stated): whenever forming the ratio or computing its limit fails, a
\* limit that does not exist (an oscillating ratio) included, the result is
\* all-false with c_O = c_Omega = n0 = "undefined".
C2_FailuresAreUndefined ==
    (Classified /\ (lim.st = "raise" \/ lim.kind = "accum")) => results = Undefined

\* C3 (as stated): for every expression f, the zero expression included,
\* check_asymptotic_definitions(f, f) has L == 1 and is all-true with "1".
C3_SelfRatioIsOne ==
    (Classified /\ cf = cg /\ cf.tag = "expr") =>
        /\ lim = LFin(1, 1, 0)
        /\ results = Result(TRUE, TRUE, TRUE, "1", "1", "symbolic")
\* C3 (amended): for every expression f that is not zero (a term or a sum of
\* terms), check_asymptotic_definitions(f, f) has L == 1 and is all-true with
\* c_O = c_Omega = "1"; for f = 0 the ratio is nan.
C3_SelfRatioIsOneNonzero ==
    (Classified /\ cf = cg /\ cf.tag = "expr" /\ cf.ts # <<>>) =>
        /\ lim = LFin(1, 1, 0)
        /\ results = Result(TRUE, TRUE, TRUE, "1", "1", "symbolic")
\* A sum over the module's n has been classified against itself.
C3_Witness ==
    /\ Classified
    /\ cf = cg
    /\ isAdd(cf)
    /\ cf.v = n
    /\ results.c_O = "1"

\* C4 (as stated): at every step of the scan the candidate is one of the terms
\* of the normalized f, and the value returned is one of those terms, or the
\* normalized f itself when it is not a sum.
C4_ReturnsATerm ==
    /\ pc = "scan" => dom \in Range(terms)
    /\ (pc = "done" /\ ret # None) =>
          IF isAdd(nf) THEN ret \in {Expr(<<t>>, nf.v) : t \in Range(terms)} ELSE ret = nf
\* C4 (amended): at every step of the scan the candidate is one of the terms of
\* the normalized f; the value returned is the simplified form of one of those
\* terms (of the normalized f itself when it is not a sum), which need not be
\* one of them as written: E*exp(n) is returned as exp(n + 1).
C4_ReturnsASimplifiedTerm ==
    /\ pc = "scan" => dom \in Range(terms)
    /\ (pc = "done" /\ ret # None) =>
          IF isAdd(nf)
          THEN /\ dom \in Range(terms)
               /\ ret \in {simplify(Expr(<<t>>, nf.v)).val : t \in Range(terms)}
          ELSE ret = simplify(nf).val
\* A scan that replaced its first candidate has returned, and the value is the
\* simplified form of the term, not the term.
C4_Witness ==
    /\ pc = "done"
    /\ isAdd(nf)
    /\ dom # terms[1]
    /\ ret = simplify(Expr(<<dom>>, nf.v)).val
    /\ ret # Expr(<<dom>>, nf.v)

\* C5 (as stated): for a sum whose terms have pairwise distinct growth orders
\* and whose symbolic limits all resolved without error, dominant_term returns
\* the term of the greatest growth order, wherever it stands in the sequence.
C5_ReturnsFastestGrowing ==
    (pc = "done" /\ isAdd(nf) /\ resolved /\ ret # None) => ret.ts[1].r = MaxRank(terms)

\* C6 (as stated): no exception leaves dominant_term, so a press of Analyze
\* never shows the user anything but a parse warning or a result.
C6_NoExceptionReachesUser ==
    ~(caller = "analyze" /\ raised) /\ ui # "exception"

\* C7: a press whose input does not parse attempts no analysis (the frames of
\* dominant_term and check_asymptotic_definitions are not touched) and leaves
\* the session entries f, g, results as they were, stored or absent.
C7_FailedParseChangesNothing ==
    [][(pc \in {"idle", "done"} /\ parse_function(func_str') = None) =>
          /\ session' = session
          /\ UNCHANGED <<pc, caller, arg, nf, i, dom, resolved, ret, raised, cf, cg, lim, results>>
      ]_vars
\* A press that did not parse, after an analysis had stored its results.
C7_Witness ==
    /\ ui = "warning"
    /\ parse_function(func_str) = None
    /\ session.has
    /\ session.results.n0 = "symbolic"

\* C8 (as stated): the expression parse_function makes of an input mentioning n
\* is over the module-level n, the variable of the limits and substitutions.
C8_ParsedVariableIsN ==
    (caller = "analyze" /\ MentionsN(arg)) => arg.v = n

\* C9 (as stated): when L is computed without error the result is all-true if
\* and only if L is finite and nonzero; nan, a limit that is no number and a
\* limit whose infiniteness is unknown never give the all-true result.
C9_AllTrueIffFiniteNonzero ==
    (Classified /\ lim.st = "ok") => (AllTrue(results) <=> IsFiniteNonzero(lim))

\* C10 (as stated): the scans of two orderings of the same terms return terms
\* of the same growth order, whichever of the comparisons resolve symbolically,
\* fall back to the numeric comparison, or fail in both strategies.
C10_OrderIndependent ==
    (pc = "done" /\ isAdd(nf) /\ ret # None) =>
        \A p \in Orderings(terms) : ScanFrom(p, 2, p[1], nf.v).r = dom.r
====
